---- MODULE Spec2Model ----
(***************************************************************************)
(* rs-cache: reassembly of archives from the sector chain of the main data *)
(* file (Cache::read, Cache::read_into_writer, ReadInternal for Mmap) and  *)
(* the checksum table built from the reference table (create_checksum,     *)
(* Checksum::validate, OsrsEncode, Rs3Encode).                             *)
(*                                                                         *)
(* sector.rs, index.rs, archive.rs and codec.rs are not part of the        *)
(* sources at hand; the definitions that stand for them follow the         *)
(* natural-language specification and say so.                              *)
(***************************************************************************)
EXTENDS Integers, Sequences, FiniteSets, TLC

\* ------------------------------------------------------------------ bounds

\* Largest number of indices (reference table included) a modelled cache holds.
MaxIndexCount == 3
\* Bytes held by the last, partial sector of the modelled archives.
TailLen == 3
\* Longest RSA block Rs3Encode appends in the model.
MaxSigLen == 2

\* --------------------------------------------------------------- constants

\* sector::SECTOR_SIZE (sector.rs): the block size the specification gives.
SECTOR_SIZE == 548
\* lib.rs: pub(crate) const REFERENCE_TABLE: u8 = 255
REFERENCE_TABLE == 255

\* ----------------------------------------------------------------- helpers

RECURSIVE Pow(_, _)
Pow(b, e) == IF e = 0 THEN 1 ELSE b * Pow(b, e - 1)

\* u32::to_be_bytes and friends: n as k big-endian bytes.
to_be_bytes(n, k) == [i \in 1..k |-> (n \div Pow(256, k - i)) % 256]

\* nom be_u16 / be_u24 / be_u32: the value of a big-endian byte string.
RECURSIVE be_uint(_)
be_uint(bytes) ==
    IF bytes = <<>> THEN 0
    ELSE be_uint(SubSeq(bytes, 1, Len(bytes) - 1)) * 256 + bytes[Len(bytes)]

RECURSIVE XorBits(_, _, _)
XorBits(a, b, n) ==
    IF n = 0 THEN 0
    ELSE (((a % 2) + (b % 2)) % 2) + 2 * XorBits(a \div 2, b \div 2, n - 1)

Xor16(a, b) == XorBits(a, b, 16)

\* A u32 is kept as its two 16-bit halves, [hi, lo]: the model checker's
\* integers are 32 bits wide and signed.
U32(hi, lo) == [hi |-> hi, lo |-> lo]
U32Zero == U32(0, 0)

\* u32::to_be_bytes
u32_to_be_bytes(x) == to_be_bytes(x.hi, 2) \o to_be_bytes(x.lo, 2)

\* nom be_u32 on four bytes
be_u32(bytes) == U32(be_uint(SubSeq(bytes, 1, 2)), be_uint(SubSeq(bytes, 3, 4)))

\* One bit of the reflected CRC-32: shift right, and xor the polynomial
\* 0xEDB88320 in when the bit shifted out was set.
CrcShift(c) ==
    LET hi == c.hi \div 2
        lo == (c.lo \div 2) + (c.hi % 2) * 32768
    IN  IF c.lo % 2 = 1 THEN U32(Xor16(hi, 60856), Xor16(lo, 33568))
        ELSE U32(hi, lo)

RECURSIVE CrcRounds(_, _)
CrcRounds(c, n) == IF n = 0 THEN c ELSE CrcRounds(CrcShift(c), n - 1)

RECURSIVE CrcFold(_, _)
CrcFold(c, bytes) ==
    IF bytes = <<>> THEN c
    ELSE CrcFold(CrcRounds(U32(c.hi, Xor16(c.lo, Head(bytes))), 8), Tail(bytes))

\* crc::crc32::checksum_ieee: the reflected CRC-32, initial value and final
\* xor 0xFFFFFFFF.
checksum_ieee(bytes) ==
    LET c == CrcFold(U32(65535, 65535), bytes)
    IN  U32(Xor16(c.hi, 65535), Xor16(c.lo, 65535))

\* Whirlpool::finalize: a 64-byte digest.  The hash function itself is an
\* external crate; the model keeps its length and makes it depend on the input.
WhirlpoolDigest(bytes) ==
    LET c == checksum_ieee(bytes)
    IN  [i \in 1..64 |-> ((c.hi + c.lo) \div i) % 256]

\* ------------------------------------------------------------ sector model

\* SectorHeaderSize::from_archive: the expanded header is used for archive
\* ids that do not fit 16 bits.
SectorHeaderSize_from_archive(archive) ==
    IF archive.id > 65535 THEN "Expanded" ELSE "Normal"

\* (header_len, data_len) of a header size.
header_len_of(header_size) == IF header_size = "Expanded" THEN 10 ELSE 8
data_len_of(header_size) == SECTOR_SIZE - header_len_of(header_size)

\* The byte of the data file at absolute offset o.  A sector keeps its first
\* bytes explicitly; every byte after them is zero.
ByteAt(d, o) ==
    LET s == d.sec[(o \div SECTOR_SIZE) + 1]
        q == o % SECTOR_SIZE
    IN  IF q < Len(s) THEN s[q + 1] ELSE 0

\* The bytes of the slice [off, off + len) of the data file.
SliceBytes(d, slice) == [i \in 1..slice.len |-> ByteAt(d, slice.off + i - 1)]

\* SectorHeader as written to disk: archive id (2 or 4 bytes), chunk (2),
\* next sector (3), index id (1).
EncodeHeader(header_size, h) ==
    to_be_bytes(h.archive_id, IF header_size = "Expanded" THEN 4 ELSE 2)
        \o to_be_bytes(h.chunk, 2) \o to_be_bytes(h.next, 3)
        \o to_be_bytes(h.index_id, 1)

\* Sector::new: parses the header at the front of the slice and keeps the
\* rest of the slice as the data block; fails on a slice too short to hold
\* the header.
Sector_new(d, slice, header_size) ==
    LET hl == header_len_of(header_size)
        il == hl - 6
        b  == SliceBytes(d, [off |-> slice.off, len |-> hl])
    IN  IF slice.len < hl
        THEN [ok |-> FALSE,
              header |-> [archive_id |-> 0, chunk |-> 0, next |-> 0, index_id |-> 0],
              data_block |-> [off |-> 0, len |-> 0]]
        ELSE [ok |-> TRUE,
              header |-> [archive_id |-> be_uint(SubSeq(b, 1, il)),
                          chunk      |-> be_uint(SubSeq(b, il + 1, il + 2)),
                          next       |-> be_uint(SubSeq(b, il + 3, il + 5)),
                          index_id   |-> b[il + 6]],
              data_block |-> [off |-> slice.off + hl, len |-> slice.len - hl]]

\* SectorHeader::validate: the header must carry the expected archive id,
\* chunk and index id.
SectorHeader_validate(header, archive_id, chunk, index_id) ==
    /\ header.archive_id = archive_id
    /\ header.chunk = chunk
    /\ header.index_id = index_id

\* ------------------------------------------------- the caches of the model

\* Raw (still compressed) reference-table records the modelled caches draw
\* from, and what the codec makes of each.
RecV6 == <<1, 10>>
RecV7 == <<1, 11, 12>>
RecV5 == <<2, 20>>
RecBad == <<9>>
RecShort == <<3>>
RecEmpty == <<>>

\* codec::decode (codec.rs): the decompression collaborator, an opaque
\* function of the raw bytes.  RecV6 inflates to a table with format byte 6
\* and version 1, RecV7 to format byte 7 and version 258, RecV5 to format
\* byte 5 (which carries no version), RecShort to two bytes only; any other
\* input is rejected.
codec_decode(buffer) ==
    CASE buffer = RecV6    -> [ok |-> TRUE,  data |-> <<6, 0, 0, 0, 1, 0>>]
      [] buffer = RecV7    -> [ok |-> TRUE,  data |-> <<7, 0, 0, 1, 2>>]
      [] buffer = RecV5    -> [ok |-> TRUE,  data |-> <<5, 0, 0, 0, 9, 4, 4>>]
      [] buffer = RecShort -> [ok |-> TRUE,  data |-> <<6, 1>>]
      [] OTHER             -> [ok |-> FALSE, data |-> <<>>]

\* codec::encode(Compression::None, buffer, None) (codec.rs): the payload is
\* left uncompressed.
codec_encode_none(buffer) == buffer

RefTables ==
    { <<>>, <<RecV6>>, <<RecShort>>, <<RecV5, RecV6>>, <<RecBad, RecV6>>,
      <<RecV6, RecV7>>, <<RecV6, RecEmpty, RecV7>>, <<RecV7, RecV5, RecV6>> }

\* A cache layout: the number of indices (index 255 included; the others are
\* 0 .. index_count - 2) and the records of the reference table, which holds
\* one record per index or one per index but itself.
Plans ==
    { [index_count |-> ic, ref |-> r] : ic \in 1..MaxIndexCount, r \in RefTables }

PlanOk(p) == Len(p.ref) \in {p.index_count - 1, p.index_count}

\* The archives written to the data file, in file order: the reference-table
\* records, then in index 0 an archive with an expanded header, an archive of
\* two full sectors and a tail, and an archive of exactly one full sector.
\* Archive 0 of index 0 is empty and owns no sector.
ArchivesOf(p) ==
    [k \in 1..Len(p.ref) |->
        [index_id |-> REFERENCE_TABLE, id |-> k - 1,
         length |-> Len(p.ref[k]), content |-> p.ref[k]]]
    \o << [index_id |-> 0, id |-> 65536, length |-> TailLen, content |-> <<>>],
          [index_id |-> 0, id |-> 1,
           length |-> 2 * data_len_of("Normal") + TailLen, content |-> <<>>],
          [index_id |-> 0, id |-> 2,
           length |-> data_len_of("Normal"), content |-> <<>>],
          [index_id |-> 0, id |-> 0, length |-> 0, content |-> <<>>] >>

NumBlocks(a) ==
    LET dl == data_len_of(SectorHeaderSize_from_archive(a))
    IN  (a.length + dl - 1) \div dl

\* The sectors in file order, from sector 1 on: which archive, which chunk.
RECURSIVE BlocksFrom(_, _)
BlocksFrom(as, i) ==
    IF i > Len(as) THEN <<>>
    ELSE [c \in 1..NumBlocks(as[i]) |-> [rec |-> i, chunk |-> c - 1]]
             \o BlocksFrom(as, i + 1)

BlocksOf(p) == BlocksFrom(ArchivesOf(p), 1)

\* Sector 0 is never allocated; the file holds one sector more than blocks.
NumSectors(p) == Len(BlocksOf(p)) + 1

\* First sector of archive i of the plan (0 for an archive without sectors).
StartSector(p, i) ==
    LET js == {j \in 1..Len(BlocksOf(p)) : BlocksOf(p)[j].rec = i}
    IN  IF js = {} THEN 0 ELSE CHOOSE j \in js : \A k \in js : j <= k

NoFault == [kind |-> "none", at |-> 0, field |-> "none", value |-> 0]

\* One fault per cache at most: a header field of one sector overwritten, the
\* data file cut short, or the start sector of one archive pointing past the
\* end of the file.
FaultsOf(p) ==
    LET bs == BlocksOf(p)
        as == ArchivesOf(p)
        n  == NumSectors(p)
    IN  {NoFault}
        \cup { [kind |-> "header", at |-> j, field |-> f, value |-> 1]
                 : j \in 1..Len(bs), f \in {"archive_id", "chunk", "index_id"} }
        \cup UNION { { [kind |-> "header", at |-> j, field |-> "next", value |-> v]
                          : v \in {0, j, n} } : j \in 1..Len(bs) }
        \cup { [kind |-> "cut", at |-> 0, field |-> "none", value |-> v]
                 : v \in {n * SECTOR_SIZE - 1,
                          (n - 2) * SECTOR_SIZE + 8 + TailLen,
                          (n - 2) * SECTOR_SIZE + 8 + TailLen - 1} }
        \cup { [kind |-> "start", at |-> i, field |-> "none", value |-> n]
                 : i \in {k \in 1..Len(as) : as[k].length > 0} }

\* The header of sector j as the writer of the cache lays it out, with the
\* fault applied: a "header" fault adds its value to the id, chunk or index
\* field, or replaces the next pointer.
HeaderOf(p, fault, j) ==
    LET b == BlocksOf(p)[j]
        a == ArchivesOf(p)[b.rec]
        h == [archive_id |-> a.id, chunk |-> b.chunk,
              next |-> IF b.chunk = NumBlocks(a) - 1 THEN 0 ELSE j + 1,
              index_id |-> a.index_id]
    IN  IF fault.kind = "header" /\ fault.at = j
        THEN IF fault.field = "next" THEN [h EXCEPT !.next = fault.value]
             ELSE [h EXCEPT ![fault.field] = (@ + fault.value) % 256]
        ELSE h

\* Mmap: the main data file.  len is its length in bytes, sec[s + 1] the
\* leading bytes of sector s (header, then the start of the archive's bytes in
\* its first sector); the bytes that follow are zero.
MakeData(p, fault) ==
    LET bs == BlocksOf(p)
        as == ArchivesOf(p)
    IN  [len |-> IF fault.kind = "cut" THEN fault.value
                 ELSE NumSectors(p) * SECTOR_SIZE,
         sec |-> << <<>> >> \o
                 [j \in 1..Len(bs) |->
                    EncodeHeader(SectorHeaderSize_from_archive(as[bs[j].rec]),
                                 HeaderOf(p, fault, j))
                    \o (IF bs[j].chunk = 0 THEN as[bs[j].rec].content ELSE <<>>)]]

\* Indices: index id -> (archive id -> ArchiveRef), for the indices present.
MakeIndices(p, fault) ==
    LET as == ArchivesOf(p)
        present == {REFERENCE_TABLE} \cup 0..(p.index_count - 2)
        refs(x) == {i \in 1..Len(as) : as[i].index_id = x}
        ref(i) == [id |-> as[i].id, index_id |-> as[i].index_id,
                   sector |-> IF fault.kind = "start" /\ fault.at = i
                              THEN fault.value ELSE StartSector(p, i),
                   length |-> as[i].length]
    IN  [x \in present |->
            [a \in {as[i].id : i \in refs(x)} |->
                ref(CHOOSE i \in refs(x) : as[i].id = a)]]

\* ------------------------------------------------------------------- state

VARIABLES
    data,       \* Cache.data: the memory-mapped main data file
    indices,    \* Cache.indices
    call,       \* the call in progress or made last
    rd,         \* the read of that call: loop state of read_internal, result
    checksum,   \* the Checksum the last create_checksum returned, if any
    res         \* what the last Checksum call returned

vars == <<data, indices, call, rd, checksum, res>>

NoArchive == [id |-> 0, index_id |-> 0, sector |-> 0, length |-> 0]
NoError == [kind |-> "none", index_id |-> 0, archive_id |-> 0, sector |-> 0]

\* Number of bytes a sequence of written slices holds.
RECURSIVE BufLen(_)
BufLen(out) == IF out = <<>> THEN 0 ELSE out[1].len + BufLen(Tail(out))

\* The bytes a sequence of written slices holds.
RECURSIVE BufBytes(_, _)
BufBytes(d, out) ==
    IF out = <<>> THEN <<>> ELSE SliceBytes(d, out[1]) \o BufBytes(d, Tail(out))

\* ------------------------------------------------------------ read_internal

\* The writer read_internal is handed (W: Write).  Cache::read hands it a
\* Vec<u8>, which takes every byte; a caller of read_into_writer may hand it
\* a writer that takes room more bytes and no more (a &mut [u8], a
\* Cursor<&mut [u8]>, a file on a full disk).
VecWriter == [bounded |-> FALSE, room |-> 0]
BoundedWriter(room) == [bounded |-> TRUE, room |-> room]

\* writer.write_all(sector.data_block): all of the block is written when the
\* writer takes it; otherwise the writer keeps the bytes it had room for and
\* write_all returns an error.
write_all(writer, out, block) ==
    IF ~writer.bounded
    THEN [ok |-> TRUE, writer |-> writer, out |-> Append(out, block)]
    ELSE IF block.len <= writer.room
    THEN [ok |-> TRUE, writer |-> BoundedWriter(writer.room - block.len),
          out |-> Append(out, block)]
    ELSE [ok |-> FALSE, writer |-> BoundedWriter(0),
          out |-> IF writer.room = 0 THEN out
                  ELSE Append(out, [off |-> block.off, len |-> writer.room])]

\* The state read_internal starts its loop in.  blocks counts the sectors
\* sliced out of the data file so far, out is what the writer has received.
read_start(archive) ==
    [status |-> "running", archive |-> archive,
     current_sector |-> archive.sector, remaining |-> archive.length,
     chunk |-> 0, blocks |-> 0, out |-> <<>>, writer |-> VecWriter,
     error |-> NoError]

\* Slicing the mapped file, &self[from..to]: panics when to is past the end.
SliceInBounds(d, from, to) == from <= to /\ to <= d.len

\* Where the slice of the current sector ends: a whole sector while at least
\* data_len bytes remain, else the header and the bytes that remain.
slice_end_whole(full, offset, remaining, header_len) == offset + SECTOR_SIZE
slice_end(full, offset, remaining, header_len) ==
    IF full THEN offset + SECTOR_SIZE ELSE offset + remaining + header_len

\* The loop is left without touching a sector once nothing remains.
chain_complete_never(remaining) == FALSE
chain_complete(remaining) == remaining = 0

\* chunk += 1 at the end of a pass.
next_chunk_same(chunk) == chunk
next_chunk(chunk) == chunk + 1

\* What the writer holds when validate(..)? has returned the error: the
\* block's write_all comes after it and is not reached.
out_on_mismatch_written(out, block) == Append(out, block)
out_on_mismatch(out, block) == out

\* One pass through the loop of read_internal.
read_step(d, st) ==
    LET archive     == st.archive
        header_size == SectorHeaderSize_from_archive(archive)
        header_len  == header_len_of(header_size)
        data_len    == data_len_of(header_size)
        offset      == st.current_sector * SECTOR_SIZE
        full        == st.remaining >= data_len
        to          == slice_end(full, offset, st.remaining, header_len)
        sector      == Sector_new(d, [off |-> offset, len |-> to - offset],
                                  header_size)
        mismatch    == [kind |-> "SectorMismatch", index_id |-> archive.index_id,
                        archive_id |-> archive.id, sector |-> st.current_sector]
        parse       == [kind |-> "ParseSector", index_id |-> 0, archive_id |-> 0,
                        sector |-> archive.sector]
        io          == [kind |-> "Io", index_id |-> 0, archive_id |-> 0,
                        sector |-> 0]
        w           == write_all(st.writer, st.out, sector.data_block)
    IN  IF ~full /\ chain_complete(st.remaining)
        THEN [st EXCEPT !.status = "ok"]
        ELSE IF ~SliceInBounds(d, offset, to)
        THEN [st EXCEPT !.status = "panic"]
        ELSE IF ~sector.ok
        THEN [st EXCEPT !.status = "err", !.error = parse, !.blocks = @ + 1]
        ELSE IF ~SectorHeader_validate(sector.header, archive.id, st.chunk,
                                       archive.index_id)
        THEN [st EXCEPT !.status = "err", !.error = mismatch,
                        !.out = out_on_mismatch(@, sector.data_block),
                        !.blocks = @ + 1]
        ELSE IF ~w.ok
        THEN [st EXCEPT !.status = "err", !.error = io,
                        !.current_sector = IF full THEN sector.header.next ELSE @,
                        !.out = w.out, !.writer = w.writer,
                        !.blocks = @ + 1]
        ELSE IF full
        THEN [st EXCEPT !.current_sector = sector.header.next,
                        !.out = w.out, !.writer = w.writer,
                        !.remaining = @ - data_len,
                        !.chunk = next_chunk(@),
                        !.blocks = @ + 1]
        ELSE [st EXCEPT !.out = w.out, !.writer = w.writer,
                        !.status = "ok",
                        !.blocks = @ + 1]

RECURSIVE read_loop(_, _)
read_loop(d, st) ==
    IF st.status # "running" THEN st ELSE read_loop(d, read_step(d, st))

\* Cache::read up to the call of read_internal: the index is looked up first,
\* then the archive in it.
read_begin(ix, index_id, archive_id) ==
    IF index_id \notin DOMAIN ix
    THEN [read_start(NoArchive) EXCEPT
            !.status = "err",
            !.error = [kind |-> "IndexNotFound", index_id |-> index_id,
                       archive_id |-> 0, sector |-> 0]]
    ELSE IF archive_id \notin DOMAIN ix[index_id]
    THEN [read_start(NoArchive) EXCEPT
            !.status = "err",
            !.error = [kind |-> "ArchiveNotFound", index_id |-> index_id,
                       archive_id |-> archive_id, sector |-> 0]]
    ELSE read_start(ix[index_id][archive_id])

\* Cache::read_into_writer with the archive looked up before the index.
read_into_writer_begin_swapped(ix, index_id, archive_id) ==
    IF \A x \in DOMAIN ix : archive_id \notin DOMAIN ix[x]
    THEN [read_start(NoArchive) EXCEPT
            !.status = "err",
            !.error = [kind |-> "ArchiveNotFound", index_id |-> index_id,
                       archive_id |-> archive_id, sector |-> 0]]
    ELSE IF index_id \notin DOMAIN ix \/ archive_id \notin DOMAIN ix[index_id]
    THEN [read_start(NoArchive) EXCEPT
            !.status = "err",
            !.error = [kind |-> "IndexNotFound", index_id |-> index_id,
                       archive_id |-> 0, sector |-> 0]]
    ELSE read_start(ix[index_id][archive_id])

\* Cache::read_into_writer up to the call of read_internal.
read_into_writer_begin(ix, index_id, archive_id) ==
    IF index_id \notin DOMAIN ix
    THEN [read_start(NoArchive) EXCEPT
            !.status = "err",
            !.error = [kind |-> "IndexNotFound", index_id |-> index_id,
                       archive_id |-> 0, sector |-> 0]]
    ELSE IF archive_id \notin DOMAIN ix[index_id]
    THEN [read_start(NoArchive) EXCEPT
            !.status = "err",
            !.error = [kind |-> "ArchiveNotFound", index_id |-> index_id,
                       archive_id |-> archive_id, sector |-> 0]]
    ELSE read_start(ix[index_id][archive_id])

\* Cache::read, start to end.
Cache_read(d, ix, index_id, archive_id) ==
    read_loop(d, read_begin(ix, index_id, archive_id))

\* Cache::index_count
index_count(ix) == Cardinality(DOMAIN ix)

\* ---------------------------------------------------------------- Checksum

\* impl Default for Entry
Entry_default == [crc |-> U32Zero, version |-> U32Zero, hash |-> [i \in 1..64 |-> 0]]

\* Checksum::new
Checksum_new(count) == [index_count |-> count, entries |-> <<>>]

\* Checksum::push
Checksum_push(cs, entry) == [cs EXCEPT !.entries = Append(@, entry)]

\* The entry create_checksum builds from a non-empty reference-table record
\* and its decoded form: the version is read only when the format byte is at
\* least 6; crc and hash cover the raw record.
entry_of(buffer, decoded) ==
    [crc     |-> checksum_ieee(buffer),
     version |-> IF decoded[1] >= 6 THEN be_u32(SubSeq(decoded, 2, 5))
                 ELSE U32Zero,
     hash    |-> WhirlpoolDigest(buffer)]

\* The loop of Cache::create_checksum from index_id on.
RECURSIVE checksum_loop(_, _, _, _)
checksum_loop(d, ix, index_id, cs) ==
    IF index_id >= index_count(ix)
    THEN [status |-> "ok", checksum |-> cs]
    ELSE LET r      == Cache_read(d, ix, REFERENCE_TABLE, index_id)
             buffer == BufBytes(d, r.out)
             dec    == codec_decode(buffer)
         IN  IF r.status = "panic"
             THEN [status |-> "panic", checksum |-> cs]
             ELSE IF r.status # "ok"
             THEN checksum_loop(d, ix, index_id + 1, cs)
             ELSE IF buffer = <<>> \/ index_id = 47
             THEN checksum_loop(d, ix, index_id + 1,
                                Checksum_push(cs, Entry_default))
             ELSE IF ~dec.ok
             THEN [status |-> "err", checksum |-> cs]
             ELSE IF Len(dec.data) < 5
             THEN [status |-> "panic", checksum |-> cs]
             ELSE checksum_loop(d, ix, index_id + 1,
                                Checksum_push(cs, entry_of(buffer, dec.data)))

\* Cache::create_checksum
create_checksum(d, ix) ==
    checksum_loop(d, ix, 0, Checksum_new(index_count(ix)))

\* Checksum::validate comparing the crcs as sets.
Checksum_validate_unordered(cs, crcs) ==
    {cs.entries[k].crc : k \in 1..Len(cs.entries)} = {crcs[k] : k \in 1..Len(crcs)}

\* Checksum::validate
Checksum_validate(cs, crcs) ==
    LET internal == [k \in 1..Len(cs.entries) |-> cs.entries[k].crc]
    IN  internal = crcs

\* What OsrsEncode::encode appends for one entry: crc, then version, each as
\* four big-endian bytes.
osrs_entry_bytes_version_first(entry) ==
    u32_to_be_bytes(entry.version) \o u32_to_be_bytes(entry.crc)
osrs_entry_bytes(entry) ==
    u32_to_be_bytes(entry.crc) \o u32_to_be_bytes(entry.version)

\* The buffer OsrsEncode::encode fills, entry after entry.
RECURSIVE osrs_buffer(_)
osrs_buffer(entries) ==
    IF entries = <<>> THEN <<>>
    ELSE osrs_entry_bytes(entries[1]) \o osrs_buffer(Tail(entries))

\* impl OsrsEncode for Checksum
OsrsEncode_encode(cs) == codec_encode_none(osrs_buffer(cs.entries))

\* buffer[from..=to].copy_from_slice(src), from and to counted from 0.
copy_from_slice(buffer, from, src) ==
    [i \in 1..Len(buffer) |->
        IF i - 1 >= from /\ i - 1 < from + Len(src) THEN src[i - from] ELSE buffer[i]]

\* The five writes Rs3Encode::encode makes for the entry at position index.
rs3_write(buffer, index, entry) ==
    LET offset == index * 80
        b1 == copy_from_slice(buffer, offset + 1, u32_to_be_bytes(entry.crc))
        b2 == copy_from_slice(b1, offset + 5, u32_to_be_bytes(entry.version))
        b3 == copy_from_slice(b2, offset + 9, u32_to_be_bytes(U32Zero))
        b4 == copy_from_slice(b3, offset + 13, u32_to_be_bytes(U32Zero))
    IN  copy_from_slice(b4, offset + 17, entry.hash)

\* The loop of Rs3Encode::encode from position index on; a write that does
\* not fit the buffer panics.
RECURSIVE rs3_loop(_, _, _)
rs3_loop(buffer, entries, index) ==
    IF index >= Len(entries)
    THEN [status |-> "ok", bytes |-> buffer]
    ELSE IF index * 80 + 80 >= Len(buffer) \/ Len(entries[index + 1].hash) # 64
    THEN [status |-> "panic", bytes |-> <<>>]
    ELSE rs3_loop(rs3_write(buffer, index, entries[index + 1]), entries, index + 1)

\* impl Rs3Encode for Checksum; rsa stands for the bytes of the whirlpool
\* digest of the buffer raised to the exponent modulo the modulus.
Rs3Encode_encode(cs, rsa) ==
    LET count  == cs.index_count - 1
        buffer == [i \in 1..(81 * count) |-> IF i = 1 THEN count % 256 ELSE 0]
        filled == rs3_loop(buffer, cs.entries, 0)
    IN  IF cs.index_count = 0 \/ 81 * count = 0
        THEN [status |-> "panic", bytes |-> <<>>]
        ELSE IF filled.status # "ok" THEN filled
        ELSE [status |-> "ok", bytes |-> filled.bytes \o rsa]

\* ------------------------------------------------------------------ inputs

IndexIds == 0..(MaxIndexCount - 1) \cup {REFERENCE_TABLE}
ArchiveIds == {0, 1, 2, 3, 65536}

\* The writers read_into_writer is called with: one that takes everything,
\* and ones with room for nothing, for part of a last block, for one whole
\* block, for a block and one byte, and for two whole blocks.
Writers ==
    {VecWriter} \cup
    {BoundedWriter(n) : n \in {0, TailLen - 1, data_len_of("Normal"),
                               data_len_of("Normal") + 1,
                               2 * data_len_of("Normal")}}

crcs_of(cs) == [k \in 1..Len(cs.entries) |-> cs.entries[k].crc]

\* The crc lists a client may send: the right one, and it with two
\* neighbours swapped, one value changed, the last value dropped or a value
\* added.
CrcInputs(cs) ==
    LET own == crcs_of(cs)
        n   == Len(own)
    IN  {own, own \o <<U32Zero>>, SubSeq(own, 1, n - 1)}
        \cup { [own EXCEPT ![i] = own[i + 1], ![i + 1] = own[i]] : i \in 1..(n - 1) }
        \cup { [own EXCEPT ![i] = U32(@.hi, (@.lo + 1) % 65536)] : i \in 1..n }

RsaInputs == { [i \in 1..n |-> 7] : n \in 1..MaxSigLen }

\* ------------------------------------------------------------- the machine

NoCall == [op |-> "none", index_id |-> 0, archive_id |-> 0]
NoRead == [read_start(NoArchive) EXCEPT !.status = "idle"]
NoChecksum == [present |-> FALSE, index_count |-> 0, entries |-> <<>>]
NoRes == [status |-> "idle", of |-> NoChecksum, crcs |-> <<>>, valid |-> FALSE,
          rsa |-> <<>>, bytes |-> <<>>]

Held(cs) == [present |-> TRUE, index_count |-> cs.index_count,
             entries |-> cs.entries]

\* A panic ends the process.
Alive == rd.status # "panic" /\ res.status # "panic"

\* The caller makes one call at a time.
Ready == Alive /\ call.op = "none"

Init ==
    \E p \in Plans :
        /\ PlanOk(p)
        /\ \E fault \in FaultsOf(p) :
              /\ data = MakeData(p, fault)
              /\ indices = MakeIndices(p, fault)
        /\ call = NoCall
        /\ rd = NoRead
        /\ checksum = NoChecksum
        /\ res = NoRes

\* Cache::read up to the call of read_internal.
Read(index_id, archive_id) ==
    /\ Ready
    /\ call' = [op |-> "read", index_id |-> index_id, archive_id |-> archive_id]
    /\ rd' = read_begin(indices, index_id, archive_id)
    /\ res' = NoRes
    /\ UNCHANGED <<data, indices, checksum>>

\* Cache::read_into_writer up to the call of read_internal, which is handed
\* the caller's writer.
ReadIntoWriter(index_id, archive_id, writer) ==
    /\ Ready
    /\ call' = [op |-> "read_into_writer", index_id |-> index_id,
                archive_id |-> archive_id]
    /\ rd' = [read_into_writer_begin(indices, index_id, archive_id)
                EXCEPT !.writer = writer]
    /\ res' = NoRes
    /\ UNCHANGED <<data, indices, checksum>>

\* One pass through the loop of read_internal.
ReadStep ==
    /\ rd.status = "running"
    /\ rd' = read_step(data, rd)
    /\ UNCHANGED <<data, indices, call, checksum, res>>

\* Cache::create_checksum
CreateChecksum ==
    /\ Ready
    /\ LET r == create_checksum(data, indices)
       IN  /\ res' = [NoRes EXCEPT !.status = r.status]
           /\ checksum' = IF r.status = "ok" THEN Held(r.checksum) ELSE checksum
    /\ call' = [NoCall EXCEPT !.op = "create_checksum"]
    /\ rd' = NoRead
    /\ UNCHANGED <<data, indices>>

\* Checksum::validate
Validate(crcs) ==
    /\ Ready
    /\ checksum.present
    /\ res' = [NoRes EXCEPT !.status = "ok", !.of = checksum, !.crcs = crcs,
                            !.valid = Checksum_validate(checksum, crcs)]
    /\ call' = [NoCall EXCEPT !.op = "validate"]
    /\ rd' = NoRead
    /\ UNCHANGED <<data, indices, checksum>>

\* OsrsEncode::encode, which consumes the Checksum.
OsrsEncode ==
    /\ Ready
    /\ checksum.present
    /\ res' = [NoRes EXCEPT !.status = "ok", !.of = checksum,
                            !.bytes = OsrsEncode_encode(checksum)]
    /\ checksum' = NoChecksum
    /\ call' = [NoCall EXCEPT !.op = "osrs_encode"]
    /\ rd' = NoRead
    /\ UNCHANGED <<data, indices>>

\* Rs3Encode::encode, which consumes the Checksum.
Rs3Encode(rsa) ==
    /\ Ready
    /\ checksum.present
    /\ LET r == Rs3Encode_encode(checksum, rsa)
       IN  res' = [NoRes EXCEPT !.status = r.status, !.of = checksum,
                                !.rsa = rsa, !.bytes = r.bytes]
    /\ checksum' = NoChecksum
    /\ call' = [NoCall EXCEPT !.op = "rs3_encode"]
    /\ rd' = NoRead
    /\ UNCHANGED <<data, indices>>

\* The call returns: the caller takes its result and may call again.
Return ==
    /\ Alive
    /\ call.op # "none"
    /\ rd.status # "running"
    /\ call' = NoCall
    /\ rd' = NoRead
    /\ res' = NoRes
    /\ UNCHANGED <<data, indices, checksum>>

Next ==
    \/ \E index_id \in IndexIds, archive_id \in ArchiveIds : Read(index_id, archive_id)
    \/ \E index_id \in IndexIds, archive_id \in ArchiveIds, writer \in Writers :
          ReadIntoWriter(index_id, archive_id, writer)
    \/ ReadStep
    \/ CreateChecksum
    \/ \E crcs \in CrcInputs(checksum) : Validate(crcs)
    \/ OsrsEncode
    \/ \E rsa \in RsaInputs : Rs3Encode(rsa)
    \/ Return

Spec == Init /\ [][Next]_vars

\* ------------------------------------------------------------------ claims

IsRead == call.op \in {"read", "read_into_writer"}

\* The catalog entry the current read resolved, and its payload capacity.
EntryOfCall == indices[call.index_id][call.archive_id]
CapacityOf(entry) == SECTOR_SIZE - (IF entry.id > 65535 THEN 10 ELSE 8)
CeilDiv(a, b) == (a + b - 1) \div b

\* The four big-endian bytes of a u32 kept as halves.
BigEndian(x) == <<x.hi \div 256, x.hi % 256, x.lo \div 256, x.lo % 256>>

\* C1: when Cache::read returns Ok, the buffer holds exactly byte_length
\* bytes: payload_capacity bytes from each of the byte_length / capacity full
\* blocks, then byte_length mod capacity bytes from the partial block.
C1_ReadLength ==
    (call.op = "read" /\ rd.status = "ok") =>
        LET entry == EntryOfCall
            cap   == CapacityOf(entry)
            nfull == entry.length \div cap
            tail  == entry.length % cap
        IN  /\ BufLen(rd.out) = entry.length
            /\ Len(rd.out) = nfull + (IF tail > 0 THEN 1 ELSE 0)
            /\ \A k \in 1..nfull : rd.out[k].len = cap
            /\ tail > 0 => rd.out[nfull + 1].len = tail

\* A read of an archive of two full blocks and a partial one returned Ok.
C1_Witness ==
    /\ call.op = "read"
    /\ rd.status = "ok"
    /\ Len(rd.out) = 3
    /\ rd.out[3].len = TailLen

\* C2: after create_checksum returns Ok the manifest holds partition_count
\* entries, also when some record (255, i) with i < partition_count is absent.
C2_EntryCount ==
    (call.op = "create_checksum" /\ res.status = "ok") =>
        /\ checksum.index_count = Cardinality(DOMAIN indices)
        /\ Len(checksum.entries) = checksum.index_count

\* The header read_internal finds at the front of the current sector.
HeaderAtCurrent ==
    LET hs == SectorHeaderSize_from_archive(rd.archive)
    IN  Sector_new(data, [off |-> rd.current_sector * SECTOR_SIZE,
                          len |-> header_len_of(hs)], hs).header

C3_Step ==
    (rd.status = "running" /\ rd'.blocks = rd.blocks + 1) =>
        LET h     == HeaderAtCurrent
            k     == rd.blocks
            match == /\ h.archive_id = rd.archive.id
                     /\ h.chunk = k
                     /\ h.index_id = rd.archive.index_id
        IN  /\ rd.chunk = k
            /\ ~match => rd'.status = "err" /\ rd'.out = rd.out
            /\ match => rd'.status \in {"running", "ok"} \/ rd'.error.kind = "Io"
            /\ rd'.status = "running" => rd'.chunk = k + 1

\* C3: the k-th block visited (k from 0) is accepted exactly when its header
\* carries (entry.id, k, entry.index_id); any other header makes the read
\* fail, and the expected chunk grows by one per block.
C3_ChainValidation == [][C3_Step]_vars

\* The third block of a chain was rejected after two were accepted.
C3_Witness ==
    /\ IsRead
    /\ rd.status = "err"
    /\ rd.error.kind = "SectorMismatch"
    /\ rd.blocks = 3
    /\ Len(rd.out) = 2

\* C4: a chain that runs past the end of the data file makes the read return
\* an error value; the read never aborts the process.
C4_NoAbort == IsRead => rd.status # "panic"

\* C5: validate returns true exactly when crcs equals the crcs of the
\* entries position by position, and leaves the manifest as it was.
C5_Validate ==
    call.op = "validate" =>
        /\ res.valid <=>
              /\ Len(res.crcs) = Len(res.of.entries)
              /\ \A k \in 1..Len(res.crcs) : res.crcs[k] = res.of.entries[k].crc
        /\ checksum = res.of

\* validate rejected the crcs of the manifest in another order.
C5_Witness ==
    /\ call.op = "validate"
    /\ ~res.valid
    /\ Len(res.crcs) = Len(res.of.entries)
    /\ {res.crcs[k] : k \in 1..Len(res.crcs)}
          = {res.of.entries[k].crc : k \in 1..Len(res.of.entries)}

\* C6: for a manifest built by create_checksum with partition_count >= 1,
\* Rs3Encode::encode returns 81 * (partition_count - 1) bytes plus the
\* signature, byte 0 is partition_count - 1, and entry k is found at bytes
\* k * 80 + 1 .. k * 80 + 80: crc, version, eight zero bytes, the digest.
C6_Rs3Layout ==
    (call.op = "rs3_encode" /\ res.of.index_count >= 1) =>
        LET n == res.of.index_count - 1
            b == res.bytes
        IN  /\ res.status = "ok"
            /\ Len(b) = 81 * n + Len(res.rsa)
            /\ b[1] = n
            /\ \A k \in 0..(Len(res.of.entries) - 1) :
                  LET e == res.of.entries[k + 1]
                  IN  /\ k * 80 + 80 < 81 * n
                      /\ SubSeq(b, k * 80 + 2, k * 80 + 81)
                            = BigEndian(e.crc) \o BigEndian(e.version)
                                \o <<0, 0, 0, 0, 0, 0, 0, 0>> \o e.hash

C8_Lookup ==
    IsRead =>
        /\ call.index_id \notin DOMAIN indices =>
              /\ rd.status = "err"
              /\ rd.error = [kind |-> "IndexNotFound", index_id |-> call.index_id,
                             archive_id |-> 0, sector |-> 0]
              /\ rd.blocks = 0
              /\ rd.out = <<>>
        /\ (call.index_id \in DOMAIN indices
              /\ call.archive_id \notin DOMAIN indices[call.index_id]) =>
              /\ rd.status = "err"
              /\ rd.error = [kind |-> "ArchiveNotFound", index_id |-> call.index_id,
                             archive_id |-> call.archive_id, sector |-> 0]
              /\ rd.blocks = 0
              /\ rd.out = <<>>

\* read_into_writer was given a missing index and an archive id that exists
\* in another index.
C8_Witness ==
    /\ call.op = "read_into_writer"
    /\ call.index_id \notin DOMAIN indices
    /\ \E x \in DOMAIN indices : call.archive_id \in DOMAIN indices[x]
    /\ rd.error.kind = "IndexNotFound"

C9_Bound ==
    rd.status # "idle" =>
        LET cap == CapacityOf(rd.archive)
        IN  /\ rd.blocks <= CeilDiv(rd.archive.length, cap)
            /\ rd.remaining >= 0
            /\ rd.status = "running" =>
                  rd.remaining = rd.archive.length - rd.blocks * cap

C9_Step ==
    rd.status = "running" =>
        /\ \/ rd'.status # "running"
           \/ /\ rd'.remaining = rd.remaining - CapacityOf(rd.archive)
              /\ rd'.remaining < rd.remaining
              /\ rd'.blocks = rd.blocks + 1
        /\ rd.remaining = 0 =>
              /\ rd'.status = "ok"
              /\ rd'.blocks = rd.blocks
              /\ rd'.out = rd.out

\* C9: read_internal terminates after at most ceil(byte_length / capacity)
\* blocks whatever the next pointers hold: every pass of the loop either
\* leaves it or takes one more block and lowers remaining by the capacity,
\* remaining never falls below zero, and at zero the loop stops without
\* reading another block (an archive of length 0 reads none and is Ok).
C9_Terminates == []C9_Bound /\ [][C9_Step]_vars

\* A chain led back to its first sector and the read ended after two blocks.
C9_Witness ==
    /\ IsRead
    /\ rd.status = "err"
    /\ rd.blocks = 2
    /\ rd.current_sector = rd.archive.sector

\* C10: the entry at position k of the manifest describes partition k: the
\* default entry when record (255, k) is empty or k = 47, else the crc of the
\* raw record (255, k).
C10_EntryPerPartition ==
    (call.op = "create_checksum" /\ res.status = "ok") =>
        \A k \in 0..(Len(checksum.entries) - 1) :
            LET r   == Cache_read(data, indices, REFERENCE_TABLE, k)
                raw == BufBytes(data, r.out)
                e   == checksum.entries[k + 1]
            IN  r.status = "ok" =>
                    IF raw = <<>> \/ k = 47
                    THEN e.crc = U32Zero /\ e.version = U32Zero
                    ELSE e.crc = checksum_ieee(raw)

\* The sector the k-th block of the current read's chain sits in (k from 0),
\* following the next pointers from the entry's start sector.
RECURSIVE ChainSector(_)
ChainSector(k) ==
    IF k = 0 THEN rd.archive.sector
    ELSE LET hs == SectorHeaderSize_from_archive(rd.archive)
         IN  Sector_new(data, [off |-> ChainSector(k - 1) * SECTOR_SIZE,
                               len |-> header_len_of(hs)], hs).header.next

\* The header of the k-th block of the chain carries (entry.id, k, index_id).
ChainBlockValid(k) ==
    LET hs == SectorHeaderSize_from_archive(rd.archive)
        h  == Sector_new(data, [off |-> ChainSector(k) * SECTOR_SIZE,
                                len |-> header_len_of(hs)], hs).header
    IN  /\ h.archive_id = rd.archive.id
        /\ h.chunk = k
        /\ h.index_id = rd.archive.index_id

\* The first n payload bytes of the k-th block of the chain.
ChainPayload(k, n) ==
    [off |-> ChainSector(k) * SECTOR_SIZE
               + (IF rd.archive.id > 65535 THEN 10 ELSE 8),
     len |-> n]

Streaming == call.op = "read_into_writer" /\ rd.status # "idle"
                /\ rd.archive # NoArchive

\* The writer holds the whole payloads of blocks 0 .. k-1 of the chain, in
\* chain order, each behind a header that passed validation (k = rd.chunk,
\* the full blocks consumed so far).
SinkHoldsFullBlocks ==
    /\ Len(rd.out) >= rd.chunk
    /\ \A j \in 1..rd.chunk :
          /\ rd.out[j] = ChainPayload(j - 1, CapacityOf(rd.archive))
          /\ ChainBlockValid(j - 1)

\* C11 as stated: while streaming the writer holds the payloads of the k
\* full blocks consumed, and whenever the read has failed at block k the
\* writer has received exactly k * payload_capacity bytes, none of them from
\* the failing block.
C11_SinkOnFailure ==
    Streaming =>
        /\ SinkHoldsFullBlocks
        /\ rd.status \in {"err", "panic"} =>
              /\ Len(rd.out) = rd.chunk
              /\ BufLen(rd.out) = rd.chunk * CapacityOf(rd.archive)

C11_Sink ==
    Streaming =>
        /\ SinkHoldsFullBlocks
        /\ BufLen(rd.out) <= rd.archive.length
        /\ (rd.status = "running"
              \/ (rd.status \in {"err", "panic"} /\ rd.error.kind # "Io")) =>
              /\ Len(rd.out) = rd.chunk
              /\ BufLen(rd.out) = rd.chunk * CapacityOf(rd.archive)
        /\ (rd.status = "err" /\ rd.error.kind = "Io") =>
              /\ rd.writer = BoundedWriter(0)
              /\ ChainBlockValid(rd.chunk)
              /\ Len(rd.out) <= rd.chunk + 1
              /\ Len(rd.out) = rd.chunk + 1 =>
                    /\ rd.out[rd.chunk + 1].len < CapacityOf(rd.archive)
                    /\ rd.out[rd.chunk + 1] =
                          ChainPayload(rd.chunk, rd.out[rd.chunk + 1].len)

C11_Step ==
    (Streaming /\ rd.status = "running") =>
        /\ SubSeq(rd'.out, 1, Len(rd.out)) = rd.out
        /\ rd'.out # rd.out => ChainBlockValid(rd.chunk)
        /\ rd'.status = "err" /\ rd'.error.kind # "Io" => rd'.out = rd.out

\* C11 (amended): in read_into_writer each block's header is validated
\* before any of its payload is written and nothing written is taken back,
\* so the writer always holds the payloads of the validated blocks 0 .. k-1
\* in chain order; when the read fails at block k on the block itself (its
\* header does not match, it cannot be parsed, or it lies past the end of
\* the file) the writer has received exactly k * payload_capacity bytes and
\* no byte of block k; when it fails because the writer refuses block k,
\* whose header passed validation, the writer holds besides those bytes the
\* leading bytes of block k's payload that it had room for.
C11_Streaming == []C11_Sink /\ [][C11_Step]_vars

\* A streamed read into a writer with room for two blocks was stopped by the
\* header of its third block, the payloads of the first two already written.
C11_Witness ==
    /\ call.op = "read_into_writer"
    /\ rd.writer.bounded
    /\ rd.status = "err"
    /\ rd.error.kind = "SectorMismatch"
    /\ rd.chunk = 2
    /\ BufLen(rd.out) = 2 * CapacityOf(rd.archive)
====
